---- MODULE Spec2Model ----
(***************************************************************************)
(* Model of despacho.py: the PDF text extractor, the literal search with   *)
(* its context window, the legal-field extractor (five labelled regular    *)
(* expressions, re.findall, strip, drop_duplicates) and the script main(). *)
(*                                                                         *)
(* A Python str is a sequence of one-character strings.  A dict is a       *)
(* record; the keys "Página" and "Categoría" are written Pagina and        *)
(* Categoria.                                                              *)
(***************************************************************************)
EXTENDS Integers, Sequences, FiniteSets, TLC

VARIABLES
    uploaded_pdf,   \* the file object given to extract_text_with_pages, or None
    modo,           \* sidebar radio of main()
    tipo_busqueda,  \* radio "Tipo de búsqueda" of main()
    text_input,     \* content of the text field "Palabra o frase a buscar"
    pages_text,     \* list of {"page", "text"}
    full_text,      \* the text handed to analyze_legal_data
    query,          \* the query handed to search_in_pdf
    results,        \* value returned by search_in_pdf
    df_auto,        \* rows of the DataFrame returned by analyze_legal_data
    outcome,        \* what the last run of main() showed
    returned        \* the calls made so far: function, value, argument kept

vars == <<uploaded_pdf, modo, tipo_busqueda, text_input, pages_text, full_text,
          query, results, df_auto, outcome, returned>>

\* the value of st.file_uploader while nothing is uploaded
None == [name |-> "None", data |-> <<>>, pos |-> 0]

\* ------------------------------------------------------------------ bounds

MaxCore == 3
MaxQuery == 2
MaxFrags == 3
MaxCalls == 2

\* ------------------------------------------------------- sequences, strings

Max(a, b) == IF a > b THEN a ELSE b
Min(a, b) == IF a < b THEN a ELSE b

\* text[start:end] for 0 <= start, 0 <= end (Python clamps end to len)
Slice(text, start, end) == SubSeq(text, start + 1, Min(end, Len(text)))

RECURSIVE Concat(_)
Concat(ss) == IF ss = <<>> THEN <<>> ELSE Head(ss) \o Concat(Tail(ss))

\* all sequences over S of length at most n
StrsUpTo(S, n) == UNION {[1..k -> S] : k \in 0..n}

UpperLetters == <<"A","B","C","D","E","F","G","H","I","J","K","L","M","N","O","P","Q",
                  "R","S","T","U","V","W","X","Y","Z","Á","É","Í","Ó","Ú","Ñ">>
LowerLetters == <<"a","b","c","d","e","f","g","h","i","j","k","l","m","n","o","p","q",
                  "r","s","t","u","v","w","x","y","z","á","é","í","ó","ú","ñ">>

\* re.IGNORECASE compares characters after case folding
Lower(c) ==
    IF \E i \in DOMAIN UpperLetters : UpperLetters[i] = c
    THEN LowerLetters[CHOOSE i \in DOMAIN UpperLetters : UpperLetters[i] = c]
    ELSE c

IsSpace(c) == c \in {" ", "\n", "\t", "\r", "\f"}
IsDigit(c) == c \in {"0","1","2","3","4","5","6","7","8","9"}
IsAsciiLetter(c) ==
    \E i \in 1..26 : c = UpperLetters[i] \/ c = LowerLetters[i]
IsLetter(c) == \E i \in DOMAIN UpperLetters : c = UpperLetters[i] \/ c = LowerLetters[i]
\* \w of a str pattern: Unicode alphanumerics and the underscore ("º" is a letter, "°" is not)
IsWord(c) == IsLetter(c) \/ IsDigit(c) \/ c = "_" \/ c = "º"

\* ---------------------------------------------------------- search_in_pdf

\* the characters re.escape puts a backslash before (the vertical tab is left out:
\* it has no string literal here)
SpecialChars ==
    {"(", ")", "[", "]", "{", "}", "?", "*", "+", "-", "|", "^", "$", "\\", ".",
     "&", "~", "#", " ", "\t", "\n", "\r", "\f"}

\* the pattern compiled from the query as typed, metacharacters and all
re_escape_identity(q) == q

\* re.escape: a backslash before every special character
RECURSIVE re_escape(_)
re_escape(q) ==
    IF q = <<>> THEN <<>>
    ELSE (IF Head(q) \in SpecialChars THEN <<"\\", Head(q)>> ELSE <<Head(q)>>)
         \o re_escape(Tail(q))

\* re.compile of a pattern made of literals, escaped characters and dots: the
\* list of its one-character atoms.  A backslash makes the next character a
\* literal; a bare dot matches any character but the newline.
RECURSIVE re_compile(_)
re_compile(p) ==
    IF p = <<>> THEN <<>>
    ELSE IF Head(p) = "\\" /\ Len(p) >= 2
         THEN <<[any |-> FALSE, c |-> p[2]]>> \o re_compile(Tail(Tail(p)))
         ELSE IF Head(p) = "."
              THEN <<[any |-> TRUE, c |-> "."]>> \o re_compile(Tail(p))
              ELSE <<[any |-> FALSE, c |-> Head(p)]>> \o re_compile(Tail(p))

AtomMatches(atom, ch) ==
    IF atom.any THEN ch # "\n" ELSE Lower(atom.c) = Lower(ch)

\* the compiled pattern matches text at 0-based position i
PatternMatchesAt(pattern, text, i) ==
    /\ i + Len(pattern) <= Len(text)
    /\ \A k \in 1..Len(pattern) : AtomMatches(pattern[k], text[i + k])

\* pattern.finditer(text) is one scan, left to right: at each position the
\* pattern is tried; after a match the scan resumes at its end, one further after
\* an empty one.  ScanRange is the part of that scan over the start positions
\* pos..hi: the spans found and the position where the scan then stands.  The
\* range is halved, the right half scanned from where the left half ended.
RECURSIVE ScanRange(_, _, _, _)
ScanRange(pattern, text, pos, hi) ==
    IF pos > hi THEN [spans |-> <<>>, pos |-> pos]
    ELSE IF pos = hi
    THEN IF PatternMatchesAt(pattern, text, pos)
         THEN [spans |-> <<[start |-> pos, end |-> pos + Len(pattern)]>>,
               pos |-> IF Len(pattern) > 0 THEN pos + Len(pattern) ELSE pos + 1]
         ELSE [spans |-> <<>>, pos |-> pos + 1]
    ELSE LET left == ScanRange(pattern, text, pos, (pos + hi) \div 2)
             right == ScanRange(pattern, text, left.pos, hi)
         IN [spans |-> left.spans \o right.spans, pos |-> right.pos]

finditer(pattern, text) == ScanRange(pattern, text, 0, Len(text)).spans

ContextRadius == 100

\* a window one character too wide on either side
WiderRadius == ContextRadius + 1

\* the 100 of match.start() - 100 and match.end() + 100
Radius == ContextRadius

\* str.replace("\n", " ")
ReplaceNewlines(s) == [i \in DOMAIN s |-> IF s[i] = "\n" THEN " " ELSE s[i]]

Hit(page_info, match) ==
    LET text == page_info.text
        start == Max(0, match.start - Radius)
        end == Min(Len(text), match.end + Radius)
    IN [Pagina |-> page_info.page,
        Coincidencia |-> Slice(text, match.start, match.end),
        Contexto |-> ReplaceNewlines(Slice(text, start, end))]

PageHits(pattern, page_info) ==
    LET matches == finditer(pattern, page_info.text)
    IN [k \in DOMAIN matches |-> Hit(page_info, matches[k])]

search_in_pdf(pages, q) ==
    LET pattern == re_compile(re_escape(q))
    IN Concat([p \in DOMAIN pages |-> PageHits(pattern, pages[p])])

\* ----------------------------------------------------- analyze_legal_data

W_Juzgado == <<"J","u","z","g","a","d","o">>
W_Sala == <<"S","a","l","a">>
W_Tribunal == <<"T","r","i","b","u","n","a","l">>
W_Expediente == <<"E","x","p","e","d","i","e","n","t","e">>
W_Toca == <<"T","o","c","a">>
W_Juicio == <<"J","u","i","c","i","o">>
W_Proceso == <<"P","r","o","c","e","s","o">>
W_Asunto == <<"A","s","u","n","t","o">>
W_Secretar == <<"S","e","c","r","e","t","a","r">>
W_Despacho == <<"D","e","s","p","a","c","h","o">>
W_Demandante == <<"D","e","m","a","n","d","a","n","t","e">>
W_Actor == <<"A","c","t","o","r">>
W_Parte == <<"P","a","r","t","e">>
W_Actora == <<"A","c","t","o","r","a">>
W_Demandado == <<"D","e","m","a","n","d","a","d","o">>
W_Demandada == <<"D","e","m","a","n","d","a","d","a">>

\* Character classes of the five patterns, under re.IGNORECASE
InClass(item, ch) ==
    CASE item.k = "lit" -> Lower(ch) = Lower(item.c)
      [] item.k = "i_acc" -> Lower(ch) \in {"i", "í"}                   \* [ií]
      [] item.k = "space" -> IsSpace(ch)                                \* \s
      [] item.k = "juzgado_tail" ->                                     \* [\s\wº°\d\-\.]
            IsSpace(ch) \/ IsWord(ch) \/ IsDigit(ch) \/ ch \in {"º", "°", "-", "."}
      [] item.k = "exp_token" ->                                        \* [A-Z0-9\/\-\.]
            IsAsciiLetter(ch) \/ IsDigit(ch) \/ ch \in {"/", "-", "."}
      [] item.k = "sec_tail" ->                                         \* [\w\d\sº°#\-]
            IsWord(ch) \/ IsDigit(ch) \/ IsSpace(ch) \/ ch \in {"º", "°", "#", "-"}
      [] item.k = "sep" -> ch = ":" \/ IsSpace(ch)                      \* [:\s]
      [] item.k = "name" -> IsLetter(ch) \/ IsSpace(ch) \/ ch = "."    \* [A-ZÁÉÍÓÚÑa-z\s\.]

\* One item of a pattern: a literal character or a class, taken once (many = FALSE)
\* or min-or-more times, greedily; grp is the capture group the item fills (0: none)
Lit(ch) == [k |-> "lit", c |-> ch, min |-> 1, many |-> FALSE, grp |-> 0]
Once(class) == [k |-> class, c |-> "", min |-> 1, many |-> FALSE, grp |-> 0]
Rep(class, least, g) == [k |-> class, c |-> "", min |-> least, many |-> TRUE, grp |-> g]
Word(w) == [i \in DOMAIN w |-> Lit(w[i])]

\* The dict patterns, in insertion order.  alts are the alternatives of group 1,
\* tail is what follows the group, ngroups the number of capture groups.
patterns ==
    << [key |-> "Juzgado", ngroups |-> 1,
        alts |-> <<Word(W_Juzgado), Word(W_Sala), Word(W_Tribunal)>>,
        tail |-> <<Rep("juzgado_tail", 0, 0)>>],
       [key |-> "Expediente", ngroups |-> 1,
        alts |-> <<Word(W_Expediente), <<Lit("T"), Lit(".")>>, Word(W_Toca),
                   Word(W_Juicio), Word(W_Proceso), Word(W_Asunto)>>,
        tail |-> <<Rep("space", 0, 0), Rep("exp_token", 1, 0)>>],
       [key |-> "Secretaria", ngroups |-> 1,
        alts |-> <<Word(W_Secretar) \o <<Once("i_acc"), Lit("a")>>, Word(W_Despacho)>>,
        tail |-> <<Rep("space", 0, 0), Rep("sec_tail", 0, 0)>>],
       [key |-> "Demandante", ngroups |-> 2,
        alts |-> <<Word(W_Demandante), Word(W_Actor),
                   Word(W_Parte) \o <<Rep("space", 1, 0)>> \o Word(W_Actora)>>,
        tail |-> <<Rep("sep", 1, 0), Rep("name", 1, 2)>>],
       [key |-> "Demandado", ngroups |-> 2,
        alts |-> <<Word(W_Demandado), Word(W_Demandada),
                   Word(W_Parte) \o <<Rep("space", 1, 0)>> \o Word(W_Demandada)>>,
        tail |-> <<Rep("sep", 1, 0), Rep("name", 1, 2)>>] >>

\* how many characters from pos on the item can take at most
RECURSIVE RunLen(_, _, _)
RunLen(item, text, pos) ==
    IF pos < Len(text) /\ InClass(item, text[pos + 1])
    THEN IF item.many THEN 1 + RunLen(item, text, pos + 1) ELSE 1
    ELSE 0

NoMatch == [ok |-> FALSE, path |-> <<>>]

\* The backtracking matcher: items k.. against text from pos.  A greedy item takes
\* as much as it can and gives back one character at a time while the rest fails.
\* path lists the position reached after each item.
RECURSIVE MatchItems(_, _, _, _)
RECURSIVE TryCounts(_, _, _, _, _)
MatchItems(items, k, text, pos) ==
    IF k > Len(items) THEN [ok |-> TRUE, path |-> <<>>]
    ELSE TryCounts(items, k, text, pos, RunLen(items[k], text, pos))

TryCounts(items, k, text, pos, n) ==
    IF n < items[k].min THEN NoMatch
    ELSE LET rest == MatchItems(items, k + 1, text, pos + n)
         IN IF rest.ok THEN [ok |-> TRUE, path |-> <<pos + n>> \o rest.path]
            ELSE TryCounts(items, k, text, pos, n - 1)

\* The span of group g of a match of alt \o tail that started at pos
GroupSpan(alt, items, path, pos, g) ==
    IF g = 1 THEN [start |-> pos, end |-> path[Len(alt)]]
    ELSE LET k == CHOOSE j \in DOMAIN items : items[j].grp = g
         IN [start |-> path[k - 1], end |-> path[k]]

\* The match of pat at pos: the first alternative, in order, that lets the whole
\* pattern match
RECURSIVE MatchAlts(_, _, _, _)
MatchAlts(pat, a, text, pos) ==
    IF a > Len(pat.alts) THEN [ok |-> FALSE]
    ELSE LET alt == pat.alts[a]
             items == alt \o pat.tail
             m == MatchItems(items, 1, text, pos)
         IN IF m.ok
            THEN [ok |-> TRUE,
                  end |-> m.path[Len(items)],
                  whole |-> Slice(text, pos, m.path[Len(items)]),
                  groups |-> [g \in 1..pat.ngroups |->
                                 LET sp == GroupSpan(alt, items, m.path, pos, g)
                                 IN Slice(text, sp.start, sp.end)]]
            ELSE MatchAlts(pat, a + 1, text, pos)

\* The successive matches of pat in text from pos on, left to right, not overlapping
RECURSIVE Matches(_, _, _)
Matches(pat, text, pos) ==
    IF pos > Len(text) THEN <<>>
    ELSE LET m == MatchAlts(pat, 1, text, pos)
         IN IF m.ok
            THEN <<m>> \o Matches(pat, text, IF m.end > pos THEN m.end ELSE pos + 1)
            ELSE Matches(pat, text, pos + 1)

\* re.findall: per match the whole match (no group), the group (one group) or the
\* tuple of the groups (several)
findall(pat, text) ==
    LET ms == Matches(pat, text, 0)
    IN [i \in DOMAIN ms |->
          IF pat.ngroups = 0 THEN [tuple |-> FALSE, items |-> <<ms[i].whole>>]
          ELSE IF pat.ngroups = 1 THEN [tuple |-> FALSE, items |-> <<ms[i].groups[1]>>]
          ELSE [tuple |-> TRUE, items |-> ms[i].groups]]

\* str.strip()
RECURSIVE lstrip(_)
lstrip(s) == IF s # <<>> /\ IsSpace(Head(s)) THEN lstrip(Tail(s)) ELSE s

RECURSIVE rstrip(_)
rstrip(s) ==
    IF s # <<>> /\ IsSpace(s[Len(s)]) THEN rstrip(SubSeq(s, 1, Len(s) - 1)) ELSE s

strip(s) == rstrip(lstrip(s))

\* m[0] taken where m[-1] is meant
ValorOfFirstGroup(m) == strip(m.items[1])

\* the value the loop takes from an element m of findall's list
Valor(m) ==
    IF m.tuple THEN strip(m.items[Len(m.items)]) ELSE strip(m.items[1])

\* the rows appended for one entry of patterns
RowsOf(pat, text) ==
    LET matches == findall(pat, text)
    IN [i \in DOMAIN matches |-> [Categoria |-> pat.key, Valor |-> Valor(matches[i])]]

\* the list results when the loop over patterns ends
RawRows(text) == Concat([p \in DOMAIN patterns |-> RowsOf(patterns[p], text)])

\* the rows as collected, with no drop_duplicates
KeepAll(rows) == rows

\* DataFrame.drop_duplicates(): the first of equal rows is kept, order kept
RECURSIVE drop_duplicates(_)
drop_duplicates(rows) ==
    IF rows = <<>> THEN <<>>
    ELSE LET init == drop_duplicates(SubSeq(rows, 1, Len(rows) - 1))
             last == rows[Len(rows)]
         IN IF \E i \in DOMAIN init : init[i] = last THEN init ELSE Append(init, last)

analyze_legal_data(text) == drop_duplicates(RawRows(text))

\* ------------------------------------------------ extract_text_with_pages

\* The bytes of an upload: the header and then, per page of the document, the
\* page's content, written as the text get_text("text") gives for it.
PdfHeader == "%PDF"

PdfBytes(texts) == <<PdfHeader>> \o texts

UploadedFile(bytes) == [name |-> "upload.pdf", data |-> bytes, pos |-> 0]

\* pdf_file.read(): the bytes from the position on; the position moves to the end
read(file) ==
    [ret |-> SubSeq(file.data, file.pos + 1, Len(file.data)),
     file |-> [file EXCEPT !.pos = Len(file.data)]]

\* fitz.open(stream=..., filetype="pdf"): refuses an empty stream and bytes that
\* are no PDF
fitz_open(stream) ==
    IF stream = <<>> THEN [raised |-> "EmptyFileError", doc |-> <<>>]
    ELSE IF Head(stream) # PdfHeader THEN [raised |-> "FileDataError", doc |-> <<>>]
    ELSE [raised |-> "", doc |-> Tail(stream)]

\* raised: the exception that left the function, "" when it returned ret
extract_text_with_pages(pdf_file) ==
    LET r == read(pdf_file)
        pdf_doc == fitz_open(r.ret)
    IN [file |-> r.file,
        raised |-> pdf_doc.raised,
        ret |-> [i \in DOMAIN pdf_doc.doc |-> [page |-> i, text |-> pdf_doc.doc[i]]]]

\* ------------------------------------------------------------------ main

W_Personalizado == <<"P","e","r","s","o","n","a","l","i","z","a","d","o">>
W_Secretaria == <<"S","e","c","r","e","t","a","r","í","a">>

Busqueda == "Búsqueda Específica"
Analisis == "Análisis Automático Completo"
modos == <<Busqueda, Analisis>>

opciones == <<W_Personalizado, W_Juzgado, W_Expediente, W_Secretaria, W_Demandante,
              W_Demandado, W_Despacho>>

\* " ".join(texts)
RECURSIVE JoinSpace(_)
JoinSpace(texts) ==
    IF texts = <<>> THEN <<>>
    ELSE IF Len(texts) = 1 THEN texts[1]
    ELSE texts[1] \o <<" ">> \o JoinSpace(Tail(texts))

\* if results: st.success, the table and the download; else: st.warning
ShowHits(hits) == IF hits # <<>> THEN "success" ELSE "warning"

\* the success branch taken whatever df_auto holds
ShowRowsAlways(rows) == "success"

\* if not df_auto.empty: st.success, the table and the download; else: st.warning
ShowRows(rows) == IF rows # <<>> THEN "success" ELSE "warning"

\* One run of the script main() on the widgets' values.  shown is what the run
\* ends in: "none" (only the page frame), "error" (an exception left the script),
\* "warning" (st.warning) or "success" (st.success, the table and the download).
main(file, m, tipo, typed) ==
    LET blank == [uploaded_pdf |-> file, pages_text |-> <<>>, full_text |-> <<>>,
                  query |-> <<>>, results |-> <<>>, df_auto |-> <<>>, shown |-> "none"]
    IN IF file = None THEN blank
       ELSE
         LET ex == extract_text_with_pages(file)
             pages == ex.ret
             full == JoinSpace([i \in DOMAIN pages |-> pages[i].text])
             got == [blank EXCEPT !.uploaded_pdf = ex.file, !.pages_text = pages,
                                  !.full_text = full]
         IN IF ex.raised # "" THEN [blank EXCEPT !.uploaded_pdf = ex.file, !.shown = "error"]
            ELSE IF m = Busqueda
            THEN LET q == IF tipo = W_Personalizado THEN typed ELSE tipo
                 IN IF q # <<>>
                    THEN LET hits == search_in_pdf(pages, q)
                         IN [got EXCEPT !.query = q, !.results = hits,
                                        !.shown = ShowHits(hits)]
                    ELSE [got EXCEPT !.query = q]
            ELSE LET rows == analyze_legal_data(full)
                 IN [got EXCEPT !.df_auto = rows, !.shown = ShowRows(rows)]

\* Streamlit runs the script again after every change of a widget; the file
\* uploader hands each run the upload at position 0.
Rerun(file, m, tipo, typed) ==
    \E run \in {main(file, m, tipo, typed)} :
       /\ uploaded_pdf' = run.uploaded_pdf
       /\ modo' = m
       /\ tipo_busqueda' = tipo
       /\ text_input' = typed
       /\ pages_text' = run.pages_text
       /\ full_text' = run.full_text
       /\ query' = run.query
       /\ results' = run.results
       /\ df_auto' = run.df_auto
       /\ outcome' = run.shown
       /\ UNCHANGED returned

Rewound(file) == IF file = None THEN None ELSE [file EXCEPT !.pos = 0]

\* ---------------------------------------------------------------- inputs

PadChar == "-"
Pad(n) == [i \in 1..n |-> PadChar]

TextChars == {"a", "A", "\n"}
QueryChars == {"a", "A", ".", "\n"}

\* one page, bare; one short page between two pads longer than the context
\* radius; two pages
Cores == StrsUpTo(TextChars, MaxCore)
ShortCores == StrsUpTo(TextChars, MaxCore - 1)
Page(n, t) == [page |-> n, text |-> t]
SearchDocs ==
    {<<>>} \cup {<<Page(1, t)>> : t \in Cores}
           \cup {<<Page(1, Pad(ContextRadius + 1) \o t \o Pad(ContextRadius + 1))>> :
                    t \in ShortCores}
           \cup {<<Page(1, t), Page(2, u)>> : t \in ShortCores, u \in {<<"a">>, <<".", "A">>}}
Queries == StrsUpTo(QueryChars, MaxQuery)

ScenarioA == <<"J","u","z","g","a","d","o"," ","P","r","i","m","e","r","o"," ","C","i","v","i","l"," ","d","e"," ","D","i","s","t","r","i","t","o">>
ScenarioB == <<"E","l"," ","D","e","m","a","n","d","a","d","o",":"," ","J","u","a","n"," ","P","é","r","e","z"," ","L","ó","p","e","z"," ","c","o","m","p","a","r","e","c","i","ó">>
ScenarioB_Name == <<"J","u","a","n"," ","P","é","r","e","z"," ","L","ó","p","e","z">>
ScenarioB_Run == <<"J","u","a","n"," ","P","é","r","e","z"," ","L","ó","p","e","z"," ","c","o","m","p","a","r","e","c","i","ó">>

\* the texts analysed: the two scenarios and what up to MaxFrags of these pieces
\* spell (a keyword of each pattern, a separator, a character no name holds)
Fragments ==
    {W_Sala, <<"T", ".">>, W_Despacho, W_Demandado, W_Actor, <<":", " ">>, <<"1">>}
AnalyzeTexts ==
    {ScenarioA, ScenarioB} \cup {Concat(fs) : fs \in StrsUpTo(Fragments, MaxFrags)}

MainTexts == {<<>>, <<"x", "y">>, W_Sala \o <<" ", "1">>, W_Demandado \o <<":", " ">> \o <<"A", "n", "a">>}
MainFiles ==
    {UploadedFile(<<"junk">>), UploadedFile(PdfBytes(<<>>))}
    \cup {UploadedFile(PdfBytes(<<t>>)) : t \in MainTexts}
    \cup {UploadedFile(PdfBytes(<<W_Sala, <<"x", "y">> >>))}
TypedQueries == {<<>>, <<"a">>, <<"z">>, W_Sala}

\* ------------------------------------------------------- specifications

Defaults ==
    /\ uploaded_pdf = None
    /\ modo = modos[1]
    /\ tipo_busqueda = opciones[1]
    /\ text_input = <<>>
    /\ outcome = "none"
    /\ returned = <<>>

\* main(): the page as first served, then one run per change of a widget
Init ==
    /\ Defaults
    /\ pages_text = <<>> /\ full_text = <<>> /\ query = <<>>
    /\ results = <<>> /\ df_auto = <<>>

SelectFile == \E f \in MainFiles \cup {None} : Rerun(f, modo, tipo_busqueda, text_input)
SelectModo ==
    \E i \in DOMAIN modos : Rerun(Rewound(uploaded_pdf), modos[i], tipo_busqueda, text_input)
SelectTipo ==
    \E i \in DOMAIN opciones : Rerun(Rewound(uploaded_pdf), modo, opciones[i], text_input)
TypeQuery == \E q \in TypedQueries : Rerun(Rewound(uploaded_pdf), modo, tipo_busqueda, q)

Next == SelectFile \/ SelectModo \/ SelectTipo \/ TypeQuery

Spec == Init /\ [][Next]_vars

\* the three functions called directly, each up to MaxCalls times
Called(fn, raised, value, kept) ==
    [fn |-> fn, raised |-> raised, value |-> value, kept |-> kept]

CallExtract ==
    /\ Len(returned) < MaxCalls
    /\ uploaded_pdf # None
    /\ LET ex == extract_text_with_pages(uploaded_pdf)
       IN /\ uploaded_pdf' = ex.file
          /\ returned' = Append(returned, Called("extract_text_with_pages", ex.raised,
                                                 ex.ret, ex.file = uploaded_pdf))
    /\ UNCHANGED <<modo, tipo_busqueda, text_input, pages_text, full_text, query,
                   results, df_auto, outcome>>

\* search_in_pdf only reads pages_text and query
CallSearch ==
    /\ Len(returned) < MaxCalls
    /\ results' = search_in_pdf(pages_text, query)
    /\ returned' = Append(returned, Called("search_in_pdf", "", results', TRUE))
    /\ UNCHANGED <<uploaded_pdf, modo, tipo_busqueda, text_input, pages_text, full_text,
                   query, df_auto, outcome>>

\* analyze_legal_data only reads text
CallAnalyze ==
    /\ Len(returned) < MaxCalls
    /\ df_auto' = analyze_legal_data(full_text)
    /\ returned' = Append(returned, Called("analyze_legal_data", "", df_auto', TRUE))
    /\ UNCHANGED <<uploaded_pdf, modo, tipo_busqueda, text_input, pages_text, full_text,
                   query, results, outcome>>

InitSearch ==
    /\ Defaults
    /\ pages_text \in SearchDocs
    /\ query \in Queries
    /\ full_text = <<>> /\ results = <<>> /\ df_auto = <<>>

SpecSearch == InitSearch /\ [][CallSearch]_vars

InitAnalyze ==
    /\ Defaults
    /\ full_text \in AnalyzeTexts
    /\ pages_text = <<>> /\ query = <<>> /\ results = <<>> /\ df_auto = <<>>

SpecAnalyze == InitAnalyze /\ [][CallAnalyze]_vars

InitCalls ==
    /\ modo = modos[1] /\ tipo_busqueda = opciones[1] /\ text_input = <<>>
    /\ outcome = "none" /\ returned = <<>>
    /\ uploaded_pdf \in MainFiles
    /\ pages_text \in {<<>>, <<Page(1, <<"a", "\n", "A">>)>>}
    /\ query \in {<<"a">>, <<"\n">>}
    /\ full_text \in {ScenarioB, W_Sala \o <<":", " ">> \o W_Sala}
    /\ results = <<>> /\ df_auto = <<>>

NextCalls == CallExtract \/ CallSearch \/ CallAnalyze

SpecCalls == InitCalls /\ [][NextCalls]_vars

\* ------------------------------------------------------------ properties

Range(seq) == {seq[j] : j \in DOMAIN seq}

LowerStr(s) == [i \in DOMAIN s |-> Lower(s[i])]

\* needle occurs in hay
Contains(hay, needle) ==
    \E i \in 0..(Len(hay) - Len(needle)) : SubSeq(hay, i + 1, i + Len(needle)) = needle

ContainsIgnoringCase(hay, needle) == Contains(LowerStr(hay), LowerStr(needle))

\* q occurs in text at 0-based position i, letter case aside
OccursAt(text, q, i) ==
    /\ i + Len(q) <= Len(text)
    /\ LowerStr(SubSeq(text, i + 1, i + Len(q))) = LowerStr(q)

Occurrences(text, q) == {i \in 0..Len(text) : OccursAt(text, q, i)}

\* the occurrences a left-to-right scan without overlap keeps: an occurrence is
\* kept exactly when no kept occurrence before it reaches over it
KeptOccurrences(text, q) ==
    CHOOSE H \in SUBSET Occurrences(text, q) :
        \A p \in Occurrences(text, q) :
            p \in H <=> ~ \E h \in H : h < p /\ p < h + Len(q)

Ascending(H) ==
    [k \in 1..Cardinality(H) |-> CHOOSE p \in H : Cardinality({h \in H : h < p}) = k - 1]

OccurrenceList(pages, q) ==
    Concat([n \in DOMAIN pages |->
              LET at == Ascending(KeptOccurrences(pages[n].text, q))
              IN [k \in DOMAIN at |->
                    [Pagina |-> pages[n].page,
                     Coincidencia |-> SubSeq(pages[n].text, at[k] + 1, at[k] + Len(q))]]])

PageAndMatch(hits) ==
    [k \in DOMAIN hits |-> [Pagina |-> hits[k].Pagina, Coincidencia |-> hits[k].Coincidencia]]

SearchReturned == returned # <<>> /\ returned[Len(returned)].fn = "search_in_pdf"
AnalyzeReturned == returned # <<>> /\ returned[Len(returned)].fn = "analyze_legal_data"

\* C1: every hit returned by search_in_pdf has a Contexto that contains its
\* Coincidencia, letter case aside, whatever the pages and the query (a query with
\* a newline included).
C1_ContextContainsMatch ==
    SearchReturned =>
        \A k \in DOMAIN results :
            ContainsIgnoringCase(results[k].Contexto, results[k].Coincidencia)

\* C6: for a non-empty query the hits are exactly the occurrences of the query,
\* taken literally and letter case aside, that a left-to-right scan without overlap
\* keeps, page after page and in the order of their positions, each with its page's
\* number and the text as the page has it; no occurrence, no hit.
C6_HitsAreTheOccurrences ==
    (SearchReturned /\ query # <<>>) =>
        PageAndMatch(results) = OccurrenceList(pages_text, query)

\* an overlapping occurrence was passed over and a hit differs from the query in case
C6_Witness ==
    /\ SearchReturned
    /\ Len(query) = 2
    /\ \E n \in DOMAIN pages_text :
          KeptOccurrences(pages_text[n].text, query) # Occurrences(pages_text[n].text, query)
    /\ \E k \in DOMAIN results : results[k].Coincidencia # query

\* the context of a match of text at [s, e)
WindowOf(text, s, e) ==
    LET from == IF s - 100 > 0 THEN s - 100 ELSE 0
        to == IF e + 100 < Len(text) THEN e + 100 ELSE Len(text)
        cut == SubSeq(text, from + 1, to)
    IN [i \in DOMAIN cut |-> IF cut[i] = "\n" THEN " " ELSE cut[i]]

\* C7: the Contexto of a hit with span [s, e) is the page text from max(0, s-100)
\* to min(L, e+100) with every newline turned into a space; it is never longer than
\* the Coincidencia plus 200 characters.
C7_ContextWindow ==
    SearchReturned =>
        \A k \in DOMAIN results :
            LET hit == results[k]
                text == pages_text[hit.Pagina].text
            IN /\ \E s \in Occurrences(text, query) :
                     /\ hit.Coincidencia = SubSeq(text, s + 1, s + Len(query))
                     /\ hit.Contexto = WindowOf(text, s, s + Len(query))
               /\ Len(hit.Contexto) <= Len(hit.Coincidencia) + 200

\* a match with 100 characters of context on either side, cut on both sides
C7_Witness ==
    /\ SearchReturned
    /\ \E k \in DOMAIN results :
          /\ results[k].Coincidencia # <<>>
          /\ Len(results[k].Contexto) = Len(results[k].Coincidencia) + 200
          /\ Len(pages_text[results[k].Pagina].text) > Len(results[k].Contexto)

\* C8: search_in_pdf with the empty string as query returns no hit, whatever the
\* pages.
C8_EmptyQueryNoHits ==
    (SearchReturned /\ query = <<>>) => results = <<>>

RowsIn(rows, key) == {i \in DOMAIN rows : rows[i].Categoria = key}

WholeMatchKeys == {"Juzgado", "Expediente", "Secretaria"}
PartyKeys == {"Demandante", "Demandado"}

\* C2: for Juzgado, Expediente and Secretaría the Valor of a row is the whole
\* matched text, trimmed; for "Juzgado Primero Civil de Distrito" the Juzgado
\* row's Valor contains that text.
C2_ValorIsWholeMatch ==
    AnalyzeReturned =>
        /\ \A p \in DOMAIN patterns :
              patterns[p].key \in WholeMatchKeys =>
                 \A i \in RowsIn(df_auto, patterns[p].key) :
                    \E m \in Range(Matches(patterns[p], full_text, 0)) :
                       df_auto[i].Valor = strip(m.whole)
        /\ full_text = ScenarioA =>
              \E i \in RowsIn(df_auto, "Juzgado") : Contains(df_auto[i].Valor, ScenarioA)

IsNameChar(c) == IsLetter(c) \/ IsSpace(c) \/ c = "."

NoOuterSpaceOrColon(v) ==
    /\ \A i \in DOMAIN v : v[i] # ":"
    /\ v # <<>> => ~ IsSpace(v[1]) /\ ~ IsSpace(v[Len(v)])

\* v stands in text right after a separator and runs on, trailing whitespace
\* aside, to the end of the text or to a character that is no letter, space or dot
IsNameRunOf(v, text) ==
    /\ \A i \in DOMAIN v : IsNameChar(v[i])
    /\ \E i \in 1..Len(text) :
          /\ text[i] = ":" \/ IsSpace(text[i])
          /\ i + Len(v) <= Len(text)
          /\ SubSeq(text, i + 1, i + Len(v)) = v
          /\ LET rest == lstrip(SubSeq(text, i + Len(v) + 1, Len(text)))
             IN rest = <<>> \/ ~ IsNameChar(rest[1])

\* C3 as stated: the Valor of a Demandante/Demandado row is the party name after
\* the label, with no leading colon or whitespace; for "El Demandado: Juan Pérez
\* López compareció" the Demandado row's Valor is exactly "Juan Pérez López".
C3_ValorIsPartyName ==
    AnalyzeReturned =>
        /\ \A i \in DOMAIN df_auto :
              df_auto[i].Categoria \in PartyKeys => NoOuterSpaceOrColon(df_auto[i].Valor)
        /\ full_text = ScenarioB =>
              /\ RowsIn(df_auto, "Demandado") # {}
              /\ \A i \in RowsIn(df_auto, "Demandado") : df_auto[i].Valor = ScenarioB_Name

\* C3 as amended: the Valor of a Demandante/Demandado row is the last capture
\* group, trimmed: the whole run of letters, whitespace and dots after the label
\* and its separator, with no leading colon or whitespace, which runs on past the
\* name up to the first character that is none of these; for "El Demandado: Juan
\* Pérez López compareció" the Demandado row's Valor is "Juan Pérez López
\* compareció".
C3_ValorIsNameRun ==
    AnalyzeReturned =>
        /\ \A i \in DOMAIN df_auto :
              df_auto[i].Categoria \in PartyKeys =>
                 /\ NoOuterSpaceOrColon(df_auto[i].Valor)
                 /\ IsNameRunOf(df_auto[i].Valor, full_text)
        /\ full_text = ScenarioB =>
              /\ RowsIn(df_auto, "Demandado") # {}
              /\ \A i \in RowsIn(df_auto, "Demandado") : df_auto[i].Valor = ScenarioB_Run

C3_Witness ==
    /\ AnalyzeReturned
    /\ full_text = ScenarioB
    /\ RowsIn(df_auto, "Demandado") # {}

\* C4: no row returned by analyze_legal_data has an empty or whitespace-only Valor.
C4_ValorNeverBlank ==
    AnalyzeReturned => \A i \in DOMAIN df_auto : strip(df_auto[i].Valor) # <<>>

\* the (Categoría, Valor) pairs the matches of the five patterns give
MatchedPairs(text) ==
    UNION {{[Categoria |-> patterns[p].key, Valor |-> Valor(m)] :
               m \in Range(findall(patterns[p], text))} : p \in DOMAIN patterns}

\* C5: the result never holds two rows with the same (Categoría, Valor), and every
\* pair some match of a pattern gives is there exactly once.
C5_RowsAreDistinct ==
    AnalyzeReturned =>
        /\ \A i, j \in DOMAIN df_auto : df_auto[i] = df_auto[j] => i = j
        /\ Range(df_auto) = MatchedPairs(full_text)

\* two matches gave the same pair and one row stands for both
C5_Witness ==
    /\ AnalyzeReturned
    /\ df_auto # <<>>
    /\ Len(RawRows(full_text)) > Len(df_auto)

Extracted ==
    /\ uploaded_pdf # None
    /\ uploaded_pdf.data # <<>>
    /\ Head(uploaded_pdf.data) = PdfHeader

ZeroPages == Extracted /\ Len(uploaded_pdf.data) = 1

\* C9: with a document extracted, a search with a non-empty query and no hit, and
\* an analysis with no row (a document of zero pages included), end in the
\* warning, never in an error nor in the success and export; success and export
\* come only with a non-empty result.
C9_EmptyResultWarns ==
    Extracted =>
        /\ outcome # "error"
        /\ (modo = Busqueda /\ query # <<>> /\ results = <<>>) => outcome = "warning"
        /\ (modo = Analisis /\ df_auto = <<>>) => outcome = "warning"
        /\ outcome = "success" =>
              \/ modo = Busqueda /\ results # <<>>
              \/ modo = Analisis /\ df_auto # <<>>
        /\ ZeroPages =>
              /\ results = <<>> /\ df_auto = <<>>
              /\ outcome = IF modo = Busqueda /\ query = <<>> THEN "none" ELSE "warning"

\* the analysis of a document of zero pages ended in the warning
C9_Witness ==
    /\ ZeroPages
    /\ modo = Analisis
    /\ df_auto = <<>>
    /\ outcome = "warning"

\* C10: each of the three functions, called twice in succession with the same
\* argument, returns the same both times and leaves the argument as it was.
C10_SameResultTwice ==
    \A i \in 1..(Len(returned) - 1) :
        returned[i].fn = returned[i + 1].fn =>
            /\ returned[i].raised = returned[i + 1].raised
            /\ returned[i].value = returned[i + 1].value
            /\ returned[i].kept /\ returned[i + 1].kept

====
